---- MODULE Spec2Model ----
\* Model of myfuncs.plots.lm.lm: a linear-model plot (scatter, regression line,
\* credible band) drawn on a matplotlib axis.
\*
\* Numbers are exact integers or rationals.  A grid coordinate g is stored as
\* the integer g * GridDen (GridDen = NumPoints - 1), a line value v as
\* v * GridDen, and a band value w, for a credible mass num/den, as
\* w * GridDen * 2 * den.  All comparisons are made in a common unit.
EXTENDS Integers, Sequences, FiniteSets, TLC

\* ---------------------------------------------------------------- bounds
MaxCalls == 2          \* calls of lm made in one behaviour of Spec
CycleLen == 3          \* colours in the axis's colour cycle

\* ------------------------------------------------------------- constants
NumPoints == 100       \* np.linspace(..., 100)
LineZorder == 0        \* ax.plot(..., zorder=0)
BandZorder == 1        \* ax.fill_between(..., zorder=1)
BandLinewidth == 0     \* ax.fill_between(..., linewidth=0)

GridDen == NumPoints - 1

NoneRec == [tag |-> "None"]

\* Colours.  NoColor is the argument value None; Cycle(k) is the colour the
\* axis's colour cycle yields at position k.
NoColor == [name |-> "None", index |-> 0]
Named(name) == [name |-> name, index |-> 0]
Cycle(k) == [name |-> "C", index |-> k % CycleLen]

\* Keyword maps.  EmptyKws is the value of the shared default objects
\* scatter_kws={} and sample_kwargs={}.
EmptyKws == [k \in {} |-> 0]

\* ------------------------------------------------------ pure helpers
RECURSIVE SeqSum(_)
SeqSum(s) == IF s = <<>> THEN 0 ELSE Head(s) + SeqSum(Tail(s))

RECURSIVE SeqMin(_)
SeqMin(s) == IF Len(s) = 1 THEN s[1]
             ELSE LET m == SeqMin(Tail(s)) IN IF s[1] <= m THEN s[1] ELSE m

RECURSIVE SeqMax(_)
SeqMax(s) == IF Len(s) = 1 THEN s[1]
             ELSE LET m == SeqMax(Tail(s)) IN IF s[1] >= m THEN s[1] ELSE m

RECURSIVE Insert(_, _)
Insert(v, s) == IF s = <<>> THEN <<v>>
                ELSE IF v <= Head(s) THEN <<v>> \o s
                ELSE <<Head(s)>> \o Insert(v, Tail(s))

RECURSIVE SortAsc(_)
SortAsc(s) == IF s = <<>> THEN <<>> ELSE Insert(Head(s), SortAsc(Tail(s)))

\* ndarray.ravel() of a (chains x draws) array: the rows one after another.
RECURSIVE ravel(_)
ravel(d) == IF d = <<>> THEN <<>> ELSE Head(d) \o ravel(Tail(d))

\* np.linspace(start, stop, NumPoints), each point times GridDen:
\* start + (i-1) * (stop - start) / GridDen.
linspace(start, stop) ==
    [i \in 1..NumPoints |-> GridDen * start + (i - 1) * (stop - start)]

\* A grid that ignores xrange.
Grid_dataspan(x, xrange) == linspace(SeqMin(x), SeqMax(x))

\* Grid selection (lm.py 69-72).
Grid(x, xrange) ==
    IF xrange = NoneRec THEN linspace(SeqMin(x), SeqMax(x))
    ELSE linspace(xrange.lo, xrange.hi)

\* Mean of a sample as the summary table reports it: rounded to the table's
\* resolution (one unit), halves up.
RoundDiv(a, n) == (2 * a + n) \div (2 * n)
Mean(s) == RoundDiv(SeqSum(s), Len(s))

\* az.summary accepts a credible mass in (0, 1].
ValidHdi(h) == 0 < h.num /\ h.num <= h.den

\* az.summary(inferencedata, hdi_prob): one row per posterior variable.
az_summary(idata, hdi_prob) ==
    [v \in DOMAIN idata.posterior |-> [mean |-> Mean(ravel(idata.posterior[v]))]]

\* A line with intercept and slope exchanged.
LineValues_swapped(intercept, beta, xs) ==
    [i \in 1..Len(xs) |-> GridDen * beta + intercept * xs[i]]

\* intercept + beta * xs (lm.py 75), times GridDen.
LineValues(intercept, beta, xs) ==
    [i \in 1..Len(xs) |-> GridDen * intercept + beta * xs[i]]

\* numpy broadcasting of two 1-D arrays of lengths n and m.
Broadcastable(n, m) == n = m \/ n = 1 \/ m = 1
BLen(n, m) == IF n >= m THEN n ELSE m
BIdx(k, n) == IF n = 1 THEN 1 ELSE k

\* Predictions with the two sample arrays exchanged.
YPred_swapped(ics, bs, xs) ==
    [i \in 1..Len(xs) |->
        [k \in 1..BLen(Len(ics), Len(bs)) |->
            GridDen * bs[BIdx(k, Len(bs))] + ics[BIdx(k, Len(ics))] * xs[i]]]

\* ypred = intercept_samples + beta_samples * xs[:, None] (lm.py 80): row i
\* holds one value per posterior draw, times GridDen.
YPred(ics, bs, xs) ==
    [i \in 1..Len(xs) |->
        [k \in 1..BLen(Len(ics), Len(bs)) |->
            GridDen * ics[BIdx(k, Len(ics))] + bs[BIdx(k, Len(bs))] * xs[i]]]

\* np.quantile(row, qnum/qden) with linear interpolation, times qden.
Quantile(row, qnum, qden) ==
    LET s    == SortAsc(row)
        n    == Len(s)
        pos  == qnum * (n - 1)
        lo   == pos \div qden
        frac == pos % qden
        hi   == IF lo + 2 <= n THEN lo + 2 ELSE n
    IN  qden * s[lo + 1] + (s[hi] - s[lo + 1]) * frac

\* Quantile levels (lm.py 81-82) as numerators over 2 * den:
\* (1 - h) / 2 and 1 - (1 - h) / 2.
BandScale(h) == 2 * h.den
\* A lower level of 1 - h / 2.
LowerLevel_misplaced(h) == BandScale(h) - h.num
LowerLevel(h) == h.den - h.num
UpperLevel(h) == BandScale(h) - (h.den - h.num)

\* ypred_lower and ypred_upper (lm.py 81-82), times GridDen * BandScale(h).
YPredLower(ypred, h) ==
    [i \in 1..Len(ypred) |-> Quantile(ypred[i], LowerLevel(h), BandScale(h))]
YPredUpper(ypred, h) ==
    [i \in 1..Len(ypred) |-> Quantile(ypred[i], UpperLevel(h), BandScale(h))]

\* np.quantile accepts a level in [0, 1].
ValidLevels(h) == /\ 0 <= LowerLevel(h) /\ LowerLevel(h) <= BandScale(h)
                  /\ 0 <= UpperLevel(h) /\ UpperLevel(h) <= BandScale(h)

\* Colour resolution (lm.py 47-54).
BothUnset(sc, lc) == sc = NoColor /\ lc = NoColor

ResolveScatter(sc, lc, nxt) ==
    IF BothUnset(sc, lc) THEN nxt
    ELSE IF sc = NoColor THEN lc
    ELSE sc

\* A line colour that falls back to the cycle, not to scatter_color.
ResolveLine_cycle(sc, lc, nxt) == IF lc = NoColor THEN nxt ELSE lc

ResolveLine(sc, lc, nxt) ==
    IF BothUnset(sc, lc) THEN nxt
    ELSE IF sc = NoColor THEN lc
    ELSE IF lc = NoColor THEN sc
    ELSE lc

\* A cycle advanced by every call, and one advanced by none.
CycleAfter_always(pos, sc, lc) == (pos + 1) % CycleLen
CycleAfter_never(pos, sc, lc) == pos

\* next(ax._get_lines.prop_cycler) (lm.py 47-48): the cycle position after
\* the colour resolution of a call.
CycleAfter(pos, sc, lc) ==
    IF BothUnset(sc, lc) THEN (pos + 1) % CycleLen ELSE pos

\* ------------------------------------------------------------- inputs
Rat(n, d) == [num |-> n, den |-> d]

DataA == [x |-> <<1, 2, 3, 4, 5>>, y |-> <<2, 4, 5, 4, 6>>]
DataB == [x |-> <<3, -2>>, y |-> <<0, 7>>]

IData(ic, b) == [tag |-> "idata", posterior |-> [Intercept |-> ic, x |-> b]]

\* Zero-variance posteriors (2 chains x 2 draws).
PostOnes == IData(<<<<1, 1>>, <<1, 1>>>>, <<<<1, 1>>, <<1, 1>>>>)
PostFlat == IData(<<<<-2, -2>>, <<-2, -2>>>>, <<<<3, 3>>, <<3, 3>>>>)
\* A posterior with spread.
PostVar == IData(<<<<0, 4>>, <<1, -3>>>>, <<<<2, -1>>, <<4, 3>>>>)
\* A posterior whose slope is not named "x".
PostNoSlope == [tag |-> "idata",
                posterior |-> [Intercept |-> <<<<0, 4>>>>, slope |-> <<<<2, -1>>>>]]
\* A posterior whose two variables have different numbers of draws.
PostRagged == IData(<<<<0, 4>>, <<1, -3>>>>, <<<<2, -1, 1>>>>)

\* What pm.sample may return for the model "y ~ x".
EnginePosteriors == {PostOnes, PostVar}

CustomKws == [draws |-> 500]
DefaultAlpha == Rat(3, 5)

MkArgs(d, id, h, sc, lc, xr, skw) ==
    [x |-> d.x, y |-> d.y, inferencedata |-> id, hdi_prob |-> h,
     bandalpha |-> DefaultAlpha, scatter_kws |-> EmptyKws,
     scatter_color |-> sc, line_color |-> lc, xrange |-> xr,
     sample_kwargs |-> skw, kwargs |-> EmptyKws]

ScatterColors == {NoColor, Named("red")}
LineColors == {NoColor, Named("blue")}
XRange(lo, hi) == [tag |-> "pair", lo |-> lo, hi |-> hi]

\* Arguments of the calls of a sequence of calls on one axis.
SeqArgs ==
    {MkArgs(DataA, id, Rat(19, 20), sc, lc, NoneRec, EmptyKws) :
        id \in {NoneRec, PostVar},
        sc \in ScatterColors, lc \in LineColors}

\* Arguments of a single call.
CallArgs ==
    {MkArgs(d, id, h, sc, lc, xr, skw) :
        d \in {DataA, DataB},
        id \in {NoneRec, PostOnes, PostFlat, PostVar, PostNoSlope, PostRagged},
        h \in {Rat(19, 20), Rat(1, 2), Rat(1, 10), Rat(3, 2)},
        sc \in ScatterColors, lc \in LineColors,
        xr \in {NoneRec, XRange(0, 10), XRange(-3, 2)},
        skw \in {EmptyKws, CustomKws}}

\* -------------------------------------------------------------- state
VARIABLES
    pc,             \* position inside lm, "idle" between calls
    args,           \* arguments of the current (or last) call
    scatter_color,  \* local scatter_color
    line_color,     \* local line_color
    inferencedata,  \* local inferencedata
    summary,        \* local summary
    xs,             \* local xs
    layers,         \* artists of the axis, in drawing order
    prop_cycler,    \* position of ax._get_lines.prop_cycler
    defaults,       \* the shared default objects scatter_kws={}, sample_kwargs={}
    result,         \* outcome of the current (or last) call
    entry,          \* the axis as the current (or last) call found it
    engine_calls,   \* invocations of pm.sample by the current (or last) call
    history,        \* the completed calls: arguments and first layer
    calls,          \* number of calls begun
    unset_calls,    \* number of calls begun with neither colour given
    start_cycler    \* position of the colour cycle before the first call

vars == <<pc, args, scatter_color, line_color, inferencedata, summary, xs,
          layers, prop_cycler, defaults, result, entry, engine_calls,
          history, calls,
                   unset_calls, start_cycler>>

locals == <<scatter_color, line_color, inferencedata, summary, xs>>

PriorLayer == [kind |-> "prior"]

\* scatter(x, y, color=..., ax=ax, **scatter_kws): the points it draws.
ScatterLayer(x, y, color, kws) ==
    [kind |-> "points", x |-> x, y |-> y, color |-> color, kws |-> kws]

\* ax.plot(xs, intercept + beta * xs, color=line_color, zorder=0, **kwargs)
LineLayer(gx, gy, color, kws) ==
    [kind |-> "line", xs |-> gx, ys |-> gy, color |-> color,
     zorder |-> LineZorder, kws |-> kws]

\* ax.fill_between(xs, ypred_lower, ypred_upper, color=line_color, zorder=1,
\*                 alpha=bandalpha, linewidth=0)
BandLayer(gx, lower, upper, color, alpha) ==
    [kind |-> "band", xs |-> gx, lower |-> lower, upper |-> upper,
     color |-> color, zorder |-> BandZorder, alpha |-> alpha,
     linewidth |-> BandLinewidth]

\* An axis whose colour cycle stands at position k has had k artists drawn
\* from the cycle.
AxisAt(k) == [j \in 1..k |-> PriorLayer]

\* The state on entry of lm(a) (lm.py 12-44): locals bound to the arguments.
Enter(a) ==
    /\ args' = a
    /\ scatter_color' = a.scatter_color
    /\ line_color' = a.line_color
    /\ inferencedata' = a.inferencedata
    /\ summary' = NoneRec
    /\ xs' = <<>>
    /\ result' = [status |-> "running"]
    /\ entry' = [nlayers |-> Len(layers), cycler |-> prop_cycler]
    /\ engine_calls' = <<>>
    /\ pc' = "colors"

Init ==
    /\ pc = "idle"
    /\ args = NoneRec
    /\ scatter_color = NoColor
    /\ line_color = NoColor
    /\ inferencedata = NoneRec
    /\ summary = NoneRec
    /\ xs = <<>>
    /\ \E k \in 0..(CycleLen - 1) : prop_cycler = k /\ layers = AxisAt(k)
    /\ defaults = [scatter_kws |-> EmptyKws, sample_kwargs |-> EmptyKws]
    /\ result = [status |-> "none"]
    /\ entry = [nlayers |-> Len(layers), cycler |-> prop_cycler]
    /\ engine_calls = <<>>
    /\ history = <<>>
    /\ calls = 0
    /\ unset_calls = 0
    /\ start_cycler = prop_cycler

\* A call already entered, with arguments a, on an axis at cycle position k.
InitCall ==
    \E a \in CallArgs, k \in 0..(CycleLen - 1) :
        /\ pc = "colors"
        /\ args = a
        /\ scatter_color = a.scatter_color
        /\ line_color = a.line_color
        /\ inferencedata = a.inferencedata
        /\ summary = NoneRec
        /\ xs = <<>>
        /\ prop_cycler = k
        /\ layers = AxisAt(k)
        /\ defaults = [scatter_kws |-> EmptyKws, sample_kwargs |-> EmptyKws]
        /\ result = [status |-> "running"]
        /\ entry = [nlayers |-> k, cycler |-> k]
        /\ engine_calls = <<>>
        /\ history = <<>>
        /\ calls = 1
        /\ unset_calls = (IF BothUnset(a.scatter_color, a.line_color) THEN 1 ELSE 0)
        /\ start_cycler = k

\* lm(...) is called (lm.py 12-44).
BeginCall ==
    /\ pc = "idle"
    /\ calls < MaxCalls
    /\ \E a \in SeqArgs :
          /\ Enter(a)
          /\ unset_calls' = unset_calls
                + (IF BothUnset(a.scatter_color, a.line_color) THEN 1 ELSE 0)
    /\ calls' = calls + 1
    /\ UNCHANGED <<layers, prop_cycler, defaults, history, start_cycler>>

\* An exception swallowed, the call returning what it has so far.
Raise_swallowed(e) ==
    /\ result' = [status |-> "returned", inferencedata |-> inferencedata,
                  summary |-> summary]
    /\ pc' = "idle"
    /\ scatter_color' = NoColor
    /\ line_color' = NoColor
    /\ inferencedata' = NoneRec
    /\ summary' = NoneRec
    /\ xs' = <<>>

\* An exception leaves lm: the locals are dropped, nothing is returned.
Raise(e) ==
    /\ result' = [status |-> "raised", error |-> e]
    /\ pc' = "idle"
    /\ scatter_color' = NoColor
    /\ line_color' = NoColor
    /\ inferencedata' = NoneRec
    /\ summary' = NoneRec
    /\ xs' = <<>>

\* lm.py 46-54
ResolveColors ==
    /\ pc = "colors"
    /\ scatter_color' = ResolveScatter(scatter_color, line_color, Cycle(prop_cycler))
    /\ line_color' = ResolveLine(scatter_color, line_color, Cycle(prop_cycler))
    /\ prop_cycler' = CycleAfter(prop_cycler, scatter_color, line_color)
    /\ pc' = "scatter"
    /\ UNCHANGED <<args, inferencedata, summary, xs, layers, defaults, result,
                   entry, engine_calls, history, calls,
                   unset_calls, start_cycler>>

\* lm.py 56-57
Scatter ==
    /\ pc = "scatter"
    /\ \/ /\ layers' = Append(layers,
                ScatterLayer(args.x, args.y, scatter_color, args.scatter_kws))
          /\ pc' = "glm"
          /\ UNCHANGED <<locals, result>>
       \/ /\ Raise("ScatterError")
          /\ UNCHANGED layers
    /\ UNCHANGED <<args, prop_cycler, defaults, entry, engine_calls, history, calls,
                   unset_calls, start_cycler>>

\* A model refitted whether or not a posterior is supplied.
RunsEngine_always(idata) == TRUE

\* if inferencedata is None (lm.py 60)
RunsEngine(idata) == idata = NoneRec

\* One invocation of pm.sample, as the engine sees it.
EngineCall(outcome) ==
    [data |-> [x |-> args.x, y |-> args.y], formula |-> "y ~ x",
     sample_kwargs |-> args.sample_kwargs, nlayers |-> Len(layers),
     summarized |-> summary # NoneRec, outcome |-> outcome]

\* lm.py 59-64
RunGLM ==
    /\ pc = "glm"
    /\ \/ /\ RunsEngine(inferencedata)
          /\ \E p \in EnginePosteriors :
                /\ inferencedata' = p
                /\ engine_calls' = Append(engine_calls, EngineCall(p))
          /\ pc' = "summary"
          /\ UNCHANGED <<scatter_color, line_color, summary, xs, result>>
       \/ /\ RunsEngine(inferencedata)
          /\ engine_calls' = Append(engine_calls, EngineCall(NoneRec))
          /\ Raise("SamplingError")
       \/ /\ ~RunsEngine(inferencedata)
          /\ pc' = "summary"
          /\ UNCHANGED <<locals, result, engine_calls>>
    /\ UNCHANGED <<args, layers, prop_cycler, defaults, entry, history, calls,
                   unset_calls, start_cycler>>

\* lm.py 66
Summarize ==
    /\ pc = "summary"
    /\ \/ /\ ValidHdi(args.hdi_prob)
          /\ summary' = az_summary(inferencedata, args.hdi_prob)
          /\ pc' = "line"
          /\ UNCHANGED <<scatter_color, line_color, inferencedata, xs, result>>
       \/ /\ ~ValidHdi(args.hdi_prob)
          /\ Raise("ValueError")
    /\ UNCHANGED <<args, layers, prop_cycler, defaults, entry, engine_calls,
                   history, calls,
                   unset_calls, start_cycler>>

\* summary.loc[..., "mean"] succeeds for both rows (lm.py 73-74).
HasRows(s) == "Intercept" \in DOMAIN s /\ "x" \in DOMAIN s

\* lm.py 68-75
PlotLine ==
    /\ pc = "line"
    /\ \/ /\ HasRows(summary)
          /\ xs' = Grid(args.x, args.xrange)
          /\ layers' = Append(layers,
                LineLayer(xs', LineValues(summary["Intercept"].mean,
                                          summary["x"].mean, xs'),
                          line_color, args.kwargs))
          /\ pc' = "band"
          /\ UNCHANGED <<scatter_color, line_color, inferencedata, summary, result>>
       \/ /\ ~HasRows(summary)
          /\ Raise("KeyError")
          /\ UNCHANGED layers
    /\ UNCHANGED <<args, prop_cycler, defaults, entry, engine_calls, history, calls,
                   unset_calls, start_cycler>>

\* The band can be computed (lm.py 78-82).
BandComputable(idata, h) ==
    /\ HasRows(idata.posterior)
    /\ Broadcastable(Len(ravel(idata.posterior["Intercept"])),
                     Len(ravel(idata.posterior["x"])))
    /\ ValidLevels(h)

\* lm.py 77-91
PlotBand ==
    /\ pc = "band"
    /\ \/ /\ BandComputable(inferencedata, args.hdi_prob)
          /\ LET intercept_samples == ravel(inferencedata.posterior["Intercept"])
                 beta_samples == ravel(inferencedata.posterior["x"])
                 ypred == YPred(intercept_samples, beta_samples, xs)
             IN  layers' = Append(layers,
                    BandLayer(xs, YPredLower(ypred, args.hdi_prob),
                              YPredUpper(ypred, args.hdi_prob),
                              line_color, args.bandalpha))
          /\ pc' = "return"
          /\ UNCHANGED <<locals, result>>
       \/ /\ ~BandComputable(inferencedata, args.hdi_prob)
          /\ Raise("ValueError")
          /\ UNCHANGED layers
    /\ UNCHANGED <<args, prop_cycler, defaults, entry, engine_calls, history, calls,
                   unset_calls, start_cycler>>

\* lm.py 93
Return ==
    /\ pc = "return"
    /\ result' = [status |-> "returned", inferencedata |-> inferencedata,
                  summary |-> summary]
    /\ history' = Append(history, [args |-> args, first |-> entry.nlayers + 1])
    /\ pc' = "idle"
    /\ scatter_color' = NoColor
    /\ line_color' = NoColor
    /\ inferencedata' = NoneRec
    /\ summary' = NoneRec
    /\ xs' = <<>>
    /\ UNCHANGED <<args, layers, prop_cycler, defaults, entry, engine_calls, calls,
                   unset_calls, start_cycler>>

Step == ResolveColors \/ Scatter \/ RunGLM \/ Summarize \/ PlotLine
        \/ PlotBand \/ Return

\* Calls of lm, one after another, on one axis.
Next == BeginCall \/ Step
Spec == Init /\ [][Next]_vars

\* One call of lm, over all its arguments.
SpecCall == InitCall /\ [][Step]_vars

\* ------------------------------------------------------------ properties
Returned == pc = "idle" /\ result.status = "returned"
Raised == pc = "idle" /\ result.status = "raised"
InCall == calls > 0
Base == entry.nlayers
Drawn == Len(layers) - Base
PointsOf == layers[Base + 1]
LineOf == layers[Base + 2]
BandOf == layers[Base + 3]
Supplied == args.inferencedata # NoneRec
ArgsUnset == BothUnset(args.scatter_color, args.line_color)
Points == 1..NumPoints

\* C1: the colours used follow the resolution rule: neither colour given ->
\* scatter and line both use the next colour of the axis's cycle; only
\* line_color given -> the scatter uses it; only scatter_color given -> the
\* line uses it; both given -> each is used as given; and the band is drawn
\* in the colour of the line.
C1_ColorResolution ==
    InCall =>
        LET sc == args.scatter_color
            lc == args.line_color
            nxt == Cycle(entry.cycler)
        IN  /\ Drawn >= 1 =>
                /\ PointsOf.kind = "points"
                /\ ArgsUnset => PointsOf.color = nxt
                /\ (sc = NoColor /\ lc # NoColor) => PointsOf.color = lc
                /\ sc # NoColor => PointsOf.color = sc
            /\ Drawn >= 2 =>
                /\ LineOf.kind = "line"
                /\ ArgsUnset => (LineOf.color = nxt /\ LineOf.color = PointsOf.color)
                /\ (sc # NoColor /\ lc = NoColor) => LineOf.color = sc
                /\ lc # NoColor => LineOf.color = lc
            /\ Drawn >= 3 =>
                /\ BandOf.kind = "band"
                /\ BandOf.color = LineOf.color

C1_Witness ==
    /\ Returned /\ Drawn = 3
    /\ args.scatter_color # NoColor /\ args.line_color = NoColor
    /\ LineOf.color = Named("red")

\* C2: with a posterior supplied the engine is never invoked and the call
\* returns that posterior; with none supplied the engine is invoked exactly
\* once, after the scatter is drawn and before the summary is computed, with
\* the caller's sampler options, and the call returns what the engine
\* produced.  Summary, line and band are computed from the posterior returned.
C2_PosteriorSelection ==
    InCall =>
        /\ Supplied =>
            /\ engine_calls = <<>>
            /\ Returned => result.inferencedata = args.inferencedata
        /\ ~Supplied =>
            /\ Len(engine_calls) <= 1
            /\ pc \in {"glm", "colors", "scatter"} => engine_calls = <<>>
            /\ (pc \in {"summary", "line", "band", "return"} \/ Returned) =>
                /\ Len(engine_calls) = 1
                /\ engine_calls[1].nlayers = Base + 1
                /\ PointsOf.kind = "points"
                /\ ~engine_calls[1].summarized
                /\ engine_calls[1].sample_kwargs = args.sample_kwargs
                /\ engine_calls[1].data = [x |-> args.x, y |-> args.y]
            /\ Returned => result.inferencedata = engine_calls[1].outcome
        /\ Returned =>
            LET post == result.inferencedata.posterior
                ypred == YPred(ravel(post["Intercept"]), ravel(post["x"]), BandOf.xs)
            IN  /\ result.summary = az_summary(result.inferencedata, args.hdi_prob)
                /\ LineOf.ys = LineValues(Mean(ravel(post["Intercept"])),
                                          Mean(ravel(post["x"])), LineOf.xs)
                /\ BandOf.lower = YPredLower(ypred, args.hdi_prob)
                /\ BandOf.upper = YPredUpper(ypred, args.hdi_prob)

C2_Witness ==
    /\ Returned /\ ~Supplied /\ args.sample_kwargs = CustomKws
    /\ Len(engine_calls) = 1
    /\ result.inferencedata = PostVar

\* C3: with a supplied posterior, the line drawn has at every grid point g the
\* value mean_intercept + mean_slope * g, the means being the "mean" entries
\* of the rows "Intercept" and "x" of the summary returned.
C3_LineFromSummary ==
    (Returned /\ Supplied /\ Len(args.x) = Len(args.y) /\ Len(args.x) >= 2) =>
        /\ Len(LineOf.ys) = NumPoints
        /\ \A i \in Points :
              LineOf.ys[i] = GridDen * result.summary["Intercept"].mean
                             + result.summary["x"].mean * LineOf.xs[i]

C3_Witness ==
    /\ Returned /\ Supplied
    /\ result.summary["Intercept"].mean # result.summary["x"].mean
    /\ LineOf.ys[1] # LineOf.ys[NumPoints]

\* C4: for a credible mass in (0, 1), at every grid point the lower curve of
\* the band is at most its upper curve.
C4_BandOrdered ==
    \A j \in DOMAIN layers :
        (layers[j].kind = "band" /\ 0 < args.hdi_prob.num
                                 /\ args.hdi_prob.num < args.hdi_prob.den) =>
            \A i \in Points : layers[j].lower[i] <= layers[j].upper[i]

C4_Witness ==
    /\ Drawn = 3 /\ BandOf.kind = "band"
    /\ args.hdi_prob = Rat(1, 10)
    /\ \E i \in Points : BandOf.lower[i] < BandOf.upper[i]

\* C5: line and band are evaluated on one grid of 100 evenly spaced points
\* that starts and ends at the bounds of xrange when it is given, and at
\* min(x) and max(x) when it is not.
IsMin(v, x) == (\E k \in DOMAIN x : x[k] = v) /\ (\A k \in DOMAIN x : v <= x[k])
IsMax(v, x) == (\E k \in DOMAIN x : x[k] = v) /\ (\A k \in DOMAIN x : v >= x[k])

C5_Grid ==
    (InCall /\ Drawn >= 2) =>
        LET g == LineOf.xs
        IN  /\ Len(g) = NumPoints
            /\ \A i \in 1..(NumPoints - 2) : g[i + 1] - g[i] = g[i + 2] - g[i + 1]
            /\ args.xrange # NoneRec =>
                  /\ g[1] = GridDen * args.xrange.lo
                  /\ g[NumPoints] = GridDen * args.xrange.hi
            /\ args.xrange = NoneRec =>
                  \E a, b \in DOMAIN args.x :
                      /\ IsMin(args.x[a], args.x) /\ IsMax(args.x[b], args.x)
                      /\ g[1] = GridDen * args.x[a]
                      /\ g[NumPoints] = GridDen * args.x[b]
            /\ Drawn >= 3 => BandOf.xs = g

C5_Witness ==
    /\ Returned /\ args.xrange = XRange(0, 10) /\ args.x = DataB.x
    /\ LineOf.xs[1] = 0 /\ LineOf.xs[NumPoints] = GridDen * 10
    /\ BandOf.xs = LineOf.xs

\* C6: two completed calls with the same x, y, hdi_prob, xrange and the same
\* supplied posterior draw identical grid, line and band arrays, whatever the
\* first call did to the axis in between.
SameInputs(a, b) ==
    /\ a.inferencedata # NoneRec
    /\ a.inferencedata = b.inferencedata
    /\ a.x = b.x /\ a.y = b.y
    /\ a.hdi_prob = b.hdi_prob
    /\ a.xrange = b.xrange

C6_Idempotent ==
    \A i, j \in DOMAIN history :
        (i < j /\ SameInputs(history[i].args, history[j].args)) =>
            LET li == layers[history[i].first + 1]
                lj == layers[history[j].first + 1]
                bi == layers[history[i].first + 2]
                bj == layers[history[j].first + 2]
            IN  /\ li.xs = lj.xs /\ li.ys = lj.ys
                /\ bi.xs = bj.xs /\ bi.lower = bj.lower /\ bi.upper = bj.upper

C6_Witness ==
    /\ Len(history) = 2
    /\ SameInputs(history[1].args, history[2].args)
    /\ BothUnset(history[1].args.scatter_color, history[1].args.line_color)
    /\ history[2].args.line_color # NoColor
    /\ layers[history[1].first + 1].color # layers[history[2].first + 1].color
    /\ layers[history[1].first + 1].ys = layers[history[2].first + 1].ys

LayersKept == SubSeq(layers', 1, Len(layers)) = layers

\* What every completed call has added to the axis: the points, then the
\* line, then the band.
ThreeLayers ==
    /\ Drawn = 3
    /\ PointsOf.kind = "points" /\ LineOf.kind = "line" /\ BandOf.kind = "band"

DefaultsIntact == defaults = [scatter_kws |-> EmptyKws, sample_kwargs |-> EmptyKws]

\* C8 as stated: a completed call adds exactly three layers (points, line,
\* band) to the axis and changes nothing else that can be observed, whatever
\* the colour arguments; the shared default maps stay as they are.
C8_Original ==
    Returned =>
        /\ ThreeLayers
        /\ prop_cycler = entry.cycler
        /\ DefaultsIntact

\* C8 amended: a completed call adds exactly three layers (points, line,
\* band), leaves the shared default maps as they are, and advances the
\* colour cycle of the axis by one position exactly when neither colour was
\* given; nothing else that can be observed changes.
C8_AmendedState ==
    Returned =>
        /\ ThreeLayers
        /\ prop_cycler = (IF ArgsUnset THEN (entry.cycler + 1) % CycleLen
                          ELSE entry.cycler)
        /\ DefaultsIntact

C8_SideEffects == [][LayersKept /\ C8_AmendedState']_vars

C8_Witness == Returned /\ ArgsUnset /\ Drawn = 3 /\ prop_cycler # entry.cycler

\* The errors a call can end with after having drawn n layers.
ErrorsAfter(n) ==
    IF n = 0 THEN {"ScatterError"}
    ELSE IF n = 1 THEN {"SamplingError", "ValueError", "KeyError"}
    ELSE {"ValueError"}

\* C9 as stated: a failure propagates the error, returns no tuple and leaves
\* no partial result of the failed call behind.
C9_Original ==
    Raised =>
        /\ DOMAIN result = {"status", "error"}
        /\ Drawn = 0

\* C9 amended: a failure propagates the failing step's error and returns no
\* tuple; what the call did to the axis before the failing step stays: the
\* points when a later step fails, the line too when the band fails, and the
\* advance of the colour cycle.
C9_AmendedState ==
    Raised =>
        /\ DOMAIN result = {"status", "error"}
        /\ Drawn \in 0..2
        /\ result.error \in ErrorsAfter(Drawn)
        /\ (result.error = "SamplingError") <=>
              (engine_calls # <<>> /\ engine_calls[Len(engine_calls)].outcome = NoneRec)
        /\ Drawn >= 1 => PointsOf.kind = "points"
        /\ Drawn >= 2 => LineOf.kind = "line"
        /\ prop_cycler = (IF ArgsUnset THEN (entry.cycler + 1) % CycleLen
                          ELSE entry.cycler)

\* A tuple is returned only by the return statement, reached when no step
\* has failed.
ReturnsOnlyAtEnd == Returned' => pc = "return"

C9_Fatal == [][LayersKept /\ ReturnsOnlyAtEnd /\ C9_AmendedState']_vars

C9_Witness ==
    /\ Raised /\ Drawn = 2 /\ result.error = "ValueError"
    /\ ArgsUnset /\ prop_cycler # entry.cycler

\* C10: a call advances the colour cycle by one position exactly when neither
\* colour is given, and no call moves it otherwise; the k-th call made without
\* colours uses the k-th colour of the cycle counted from its position at the
\* first call; the advance precedes the scatter and outlasts a failure of the
\* rest of the call.
CycleMoves ==
    prop_cycler' = (IF pc = "colors" /\ ArgsUnset THEN (prop_cycler + 1) % CycleLen
                    ELSE prop_cycler)

CycleUse ==
    (InCall /\ ArgsUnset) =>
        /\ pc = "colors" => (prop_cycler = entry.cycler /\ Drawn = 0)
        /\ pc # "colors" =>
              /\ prop_cycler = (entry.cycler + 1) % CycleLen
              /\ prop_cycler = (start_cycler + unset_calls) % CycleLen
              /\ Drawn >= 1 =>
                    PointsOf.color = Cycle(start_cycler + unset_calls - 1)
              /\ Drawn >= 2 =>
                    LineOf.color = Cycle(start_cycler + unset_calls - 1)

C10_CycleConsumption == [][CycleMoves /\ CycleUse']_vars

C10_Witness ==
    /\ Raised /\ ArgsUnset /\ unset_calls = 2 /\ calls = 2
    /\ Len(history) = 1
    /\ prop_cycler < start_cycler
====
